---- MODULE Spec2Model ----
(***************************************************************************)
(* The human-in-the-loop audit workflow of the Documentation Freshness     *)
(* Auditor: the HTTP handlers of api.py, the background worker             *)
(* run_crew_background, the Report Store (db) and the HITL Coordinator     *)
(* (hitl).  api.py is modelled from its source.  The db and hitl modules   *)
(* and the crew's hitl_crew() are imported by api.py but are not part of   *)
(* the available source; they are modelled from spec.md (sections 3, 4.1,  *)
(* 4.2, 4.3 and 5).  The Report Store and the Coordinator registry are two *)
(* separate shared resources (spec.md section 5), so a write to one and a  *)
(* write to the other are two steps; where spec.md does not fix their      *)
(* order, both orders are modelled.                                        *)
(***************************************************************************)
EXTENDS Integers, Sequences, FiniteSets, TLC

VARIABLES
    reports,      \* Report Store: report_id -> record (db)
    projects,     \* Report Store: project_id -> record (db)
    pending,      \* Coordinator registry: report_id -> PendingHITLRequest
    linked,       \* Coordinator registry: report_ids registered by link_report
    pc,           \* position of each report's worker thread
    wfeedback,    \* worker local: the feedback returned by the pause point
    wmd,          \* worker local: report_md read from the report file
    report_file,  \* freshness_audit_report.md in the working directory
    inflight,     \* report_id -> give_feedback handlers between the status check
                  \* and send_feedback
    resp,         \* status code of the last HTTP response
    pauses,       \* history: times the report was marked pending_human_input
    removes,      \* history: times hitl.remove ran for the report
    raised,       \* history: the worker's try block raised
    installed,    \* lifespan: "no" before hitl.install, "up", "down" after uninstall
    tool          \* the last call of an extraction tool or of grab_outputs

vars == <<reports, projects, pending, linked, pc, wfeedback, wmd, report_file,
          inflight, resp, pauses, removes, raised, installed, tool>>

\* ---------------------------------------------------------------- bounds
MaxReports == 2
MaxInFlight == 1

Reports == 1..MaxReports
FeedbackTexts == {"", "fix"}

\* ---------------------------------------------------------------- values
Absent == "absent"
NoText == <<>>
NoCall == <<>>
Terminal == {"completed", "failed"}

\* Texts produced by the stages.  The final document's content is kept
\* abstract: one value stands for every final report document.
Draft(r) == <<r, "draft">>
AuditOut(r) == <<r, "audit">>
ScoreOut(r) == <<r, "score">>
ReportDoc == <<"report">>

FinalDoc(r, fb) == ReportDoc

Status(r) == IF r \in DOMAIN reports THEN reports[r].status ELSE "none"

\* ---------------------------------------------------------------- Report Store
CreateProject(id) == projects @@ (id :> [name |-> "project", path |-> "dir"])

CreateHitlReport(id) ==
    reports @@ (id :> [status |-> "processing", agent_output |-> NoText,
                       report_md |-> NoText, analysis_json |-> NoText,
                       audit_raw |-> NoText])

SetStatus(r, s) == [reports EXCEPT ![r].status = s]

SetPending(r, draft) ==
    [reports EXCEPT ![r].status = "pending_human_input", ![r].agent_output = draft]

FinalizeReport(r, md, aj, ar) ==
    [reports EXCEPT ![r].status = "completed", ![r].report_md = md,
                    ![r].analysis_json = aj, ![r].audit_raw = ar]

\* ---------------------------------------------------------------- Coordinator
HasPending(r) == r \in DOMAIN pending

Register(r, draft) == pending @@ (r :> [draft |-> draft, feedback |-> Absent])

Destroy(r) == [x \in DOMAIN pending \ {r} |-> pending[x]]

SendFeedbackOk(r) == HasPending(r)

SendFeedback(r, text) ==
    IF HasPending(r) THEN [pending EXCEPT ![r].feedback = text] ELSE pending

\* ---------------------------------------------------------------- grab_outputs
KeywordsIn ==
    [audit_task |-> {"audit"},
     freshness_scorer_task |-> {"freshness", "scorer"},
     suggestion_task |-> {"suggest", "suggestion"}]

Contains(name, kw) == kw \in KeywordsIn[name]

TasksOutput(r, fb) ==
    << [name |-> "audit_task", raw |-> AuditOut(r)],
       [name |-> "freshness_scorer_task", raw |-> ScoreOut(r)],
       [name |-> "suggestion_task", raw |-> FinalDoc(r, fb)] >>

\* grab_outputs whose scorer branch keeps an analysis_json it already has
RECURSIVE GrabLoop_KeepsFirst(_, _, _)
GrabLoop_KeepsFirst(outs, aj, ar) ==
    IF outs = <<>> THEN [analysis_json |-> aj, audit_raw |-> ar]
    ELSE LET t == Head(outs) IN
         IF Contains(t.name, "scorer") \/ Contains(t.name, "freshness")
         THEN GrabLoop_KeepsFirst(Tail(outs), IF aj = NoText THEN t.raw ELSE aj, ar)
         ELSE IF \E k \in {"suggest", "suggestion", "fix", "recommend", "fixer"} :
                     Contains(t.name, k)
         THEN GrabLoop_KeepsFirst(Tail(outs),
                                  IF aj = NoText /\ t.raw # NoText THEN t.raw ELSE aj, ar)
         ELSE IF Contains(t.name, "audit")
         THEN GrabLoop_KeepsFirst(Tail(outs), aj, t.raw)
         ELSE GrabLoop_KeepsFirst(Tail(outs), aj, ar)

RECURSIVE GrabLoop(_, _, _)
GrabLoop(outs, aj, ar) ==
    IF outs = <<>> THEN [analysis_json |-> aj, audit_raw |-> ar]
    ELSE LET t == Head(outs) IN
         IF Contains(t.name, "scorer") \/ Contains(t.name, "freshness")
         THEN GrabLoop(Tail(outs), t.raw, ar)
         ELSE IF \E k \in {"suggest", "suggestion", "fix", "recommend", "fixer"} :
                     Contains(t.name, k)
         THEN GrabLoop(Tail(outs), IF aj = NoText /\ t.raw # NoText THEN t.raw ELSE aj, ar)
         ELSE IF Contains(t.name, "audit")
         THEN GrabLoop(Tail(outs), aj, t.raw)
         ELSE GrabLoop(Tail(outs), aj, ar)

GrabOutputs(outs) == GrabLoop(outs, NoText, NoText)

\* ---------------------------------------------------------------- Init
Init ==
    /\ reports = << >>
    /\ projects = << >>
    /\ pending = << >>
    /\ linked = {}
    /\ pc = [r \in Reports |-> "none"]
    /\ wfeedback = [r \in Reports |-> Absent]
    /\ wmd = [r \in Reports |-> NoText]
    /\ report_file = NoText
    /\ inflight = [r \in Reports |-> 0]
    /\ resp = 0
    /\ pauses = [r \in Reports |-> 0]
    /\ removes = [r \in Reports |-> 0]
    /\ raised = [r \in Reports |-> FALSE]
    /\ installed = "up"
    /\ tool = NoCall

hist == <<pauses, removes, raised>>
ext == <<installed, tool>>
wlocal == <<wfeedback, wmd>>
http == <<inflight, resp>>

\* ---------------------------------------------------------------- HTTP facade
\* start_audit that creates the project before it validates the path
StartAudit_CreatesFirst(isdir) ==
    /\ Cardinality(DOMAIN reports) < MaxReports
    /\ LET id == Cardinality(DOMAIN reports) + 1 IN
       IF ~isdir
       THEN /\ resp' = 400
            /\ projects' = CreateProject(Cardinality(DOMAIN projects) + 1)
            /\ UNCHANGED <<reports, pc>>
       ELSE /\ projects' = CreateProject(Cardinality(DOMAIN projects) + 1)
            /\ reports' = CreateHitlReport(id)
            /\ pc' = [pc EXCEPT ![id] = "link"]
            /\ resp' = 200
    /\ UNCHANGED <<pending, linked, wlocal, report_file, inflight, hist, ext>>

\* start_audit that starts the worker without a project record
StartAudit_NoProject(isdir) ==
    /\ Cardinality(DOMAIN reports) < MaxReports
    /\ IF ~isdir
       THEN /\ resp' = 400
            /\ UNCHANGED <<reports, projects, pc>>
       ELSE LET id == Cardinality(DOMAIN reports) + 1 IN
            /\ reports' = CreateHitlReport(id)
            /\ pc' = [pc EXCEPT ![id] = "link"]
            /\ resp' = 200
            /\ UNCHANGED projects
    /\ UNCHANGED <<pending, linked, wlocal, report_file, inflight, hist, ext>>

\* start_audit that hands the worker the id of the first report
StartAudit_ReusesId(isdir) ==
    /\ Cardinality(DOMAIN reports) < MaxReports
    /\ IF ~isdir
       THEN /\ resp' = 400
            /\ UNCHANGED <<reports, projects, pc>>
       ELSE /\ projects' = CreateProject(Cardinality(DOMAIN projects) + 1)
            /\ reports' = CreateHitlReport(1)
            /\ pc' = [pc EXCEPT ![1] = "link"]
            /\ resp' = 200
    /\ UNCHANGED <<pending, linked, wlocal, report_file, inflight, hist, ext>>

\* POST /analyze/start: the path check, db.create_project,
\* db.create_hitl_report, Thread.start and the response.  The request's
\* project_path is represented by the outcome of os.path.isdir.
StartAudit(isdir) ==
    /\ Cardinality(DOMAIN reports) < MaxReports
    /\ IF ~isdir
       THEN /\ resp' = 400
            /\ UNCHANGED <<reports, projects, pc>>
       ELSE LET id == Cardinality(DOMAIN reports) + 1 IN
            /\ projects' = CreateProject(id)
            /\ reports' = CreateHitlReport(id)
            /\ pc' = [pc EXCEPT ![id] = "link"]
            /\ resp' = 200
    /\ UNCHANGED <<pending, linked, wlocal, report_file, inflight, hist, ext>>

\* Handlers of POST /hitl/feedback that passed the status check.
RECURSIVE InFlightUpTo(_)
InFlightUpTo(n) == IF n = 0 THEN 0 ELSE inflight[n] + InFlightUpTo(n - 1)

InFlight == InFlightUpTo(MaxReports)

\* give_feedback without the status check of lines 227-231
GiveFeedbackCheck_NoStatusCheck(r) ==
    /\ InFlight < MaxInFlight
    /\ IF r \notin DOMAIN reports
       THEN resp' = 404 /\ UNCHANGED inflight
       ELSE /\ inflight' = [inflight EXCEPT ![r] = @ + 1]
            /\ UNCHANGED resp
    /\ UNCHANGED <<reports, pending, linked, pc, wlocal, report_file, projects, hist, ext>>

\* give_feedback that marks a report failed when it refuses the feedback
GiveFeedbackCheck_Cancels(r) ==
    /\ InFlight < MaxInFlight
    /\ IF r \notin DOMAIN reports
       THEN resp' = 404 /\ UNCHANGED <<inflight, reports>>
       ELSE IF reports[r].status # "pending_human_input"
       THEN resp' = 409 /\ reports' = SetStatus(r, "failed") /\ UNCHANGED inflight
       ELSE /\ inflight' = [inflight EXCEPT ![r] = @ + 1]
            /\ UNCHANGED <<resp, reports>>
    /\ UNCHANGED <<pending, linked, pc, wlocal, report_file, projects, hist, ext>>

\* POST /hitl/feedback, lines 223-231: db.get_report and the status check.
\* The feedback text is not read before line 233 and is drawn there.
GiveFeedbackCheck(r) ==
    /\ InFlight < MaxInFlight
    /\ IF r \notin DOMAIN reports
       THEN resp' = 404 /\ UNCHANGED inflight
       ELSE IF reports[r].status # "pending_human_input"
       THEN resp' = 409 /\ UNCHANGED inflight
       ELSE /\ inflight' = [inflight EXCEPT ![r] = @ + 1]
            /\ UNCHANGED resp
    /\ UNCHANGED <<reports, pending, linked, pc, wlocal, report_file, projects, hist, ext>>

\* give_feedback that also writes the status it answers, when accepted
GiveFeedbackSend_MarksOnAccept(r, text) ==
    /\ inflight[r] > 0
    /\ inflight' = [inflight EXCEPT ![r] = @ - 1]
    /\ pending' = SendFeedback(r, text)
    /\ resp' = IF SendFeedbackOk(r) THEN 200 ELSE 409
    /\ reports' = IF SendFeedbackOk(r) THEN SetStatus(r, "processing") ELSE reports
    /\ UNCHANGED <<linked, pc, wlocal, report_file, projects, hist, ext>>

\* give_feedback that writes status processing before it looks at ok
GiveFeedbackSend_MarksAlways(r, text) ==
    /\ inflight[r] > 0
    /\ inflight' = [inflight EXCEPT ![r] = @ - 1]
    /\ pending' = SendFeedback(r, text)
    /\ resp' = IF SendFeedbackOk(r) THEN 200 ELSE 409
    /\ reports' = SetStatus(r, "processing")
    /\ UNCHANGED <<linked, pc, wlocal, report_file, projects, hist, ext>>

\* give_feedback that ignores the result of hitl.send_feedback
GiveFeedbackSend_IgnoresOk(r, text) ==
    /\ inflight[r] > 0
    /\ inflight' = [inflight EXCEPT ![r] = @ - 1]
    /\ pending' = SendFeedback(r, text)
    /\ resp' = 200
    /\ UNCHANGED <<reports, linked, pc, wlocal, report_file, projects, hist, ext>>

\* give_feedback whose feedback reaches every pending request
GiveFeedbackSend_Broadcast(r, text) ==
    /\ inflight[r] > 0
    /\ inflight' = [inflight EXCEPT ![r] = @ - 1]
    /\ pending' = [x \in DOMAIN pending |-> [pending[x] EXCEPT !.feedback = text]]
    /\ resp' = IF SendFeedbackOk(r) THEN 200 ELSE 409
    /\ UNCHANGED <<reports, linked, pc, wlocal, report_file, projects, hist, ext>>

\* give_feedback that holds the request until the worker waits at the pause
GiveFeedbackSend_WaitsForWorker(r, text) ==
    /\ inflight[r] > 0
    /\ pc[r] = "blocked"
    /\ inflight' = [inflight EXCEPT ![r] = @ - 1]
    /\ pending' = SendFeedback(r, text)
    /\ resp' = IF SendFeedbackOk(r) THEN 200 ELSE 409
    /\ UNCHANGED <<reports, linked, pc, wlocal, report_file, projects, hist, ext>>

\* POST /hitl/feedback, lines 233-245: hitl.send_feedback and the response
GiveFeedbackSend(r, text) ==
    /\ inflight[r] > 0
    /\ inflight' = [inflight EXCEPT ![r] = @ - 1]
    /\ pending' = SendFeedback(r, text)
    /\ resp' = IF SendFeedbackOk(r) THEN 200 ELSE 409
    /\ UNCHANGED <<reports, linked, pc, wlocal, report_file, projects, hist, ext>>

\* ---------------------------------------------------------------- worker
\* a worker that starts the pipeline without linking its report
Link_NotRegistered(r) ==
    /\ pc[r] = "link"
    /\ pc' = [pc EXCEPT ![r] = "stage1"]
    /\ UNCHANGED <<reports, pending, linked, wlocal, report_file, projects, http, hist, ext>>

\* run_crew_background line 142: hitl.link_report
Link(r) ==
    /\ pc[r] = "link"
    /\ linked' = linked \cup {r}
    /\ pc' = [pc EXCEPT ![r] = "stage1"]
    /\ UNCHANGED <<reports, pending, wlocal, report_file, projects, http, hist, ext>>

\* a crew whose task list leaves out freshness scoring
Stage1_SkipsScoring(r) ==
    /\ pc[r] = "stage1"
    /\ pc' = [pc EXCEPT ![r] = "stage3"]
    /\ UNCHANGED <<reports, pending, linked, wlocal, report_file, projects, http, hist, ext>>

\* kickoff: stage 1 (audit) and stage 2 (freshness scoring)
Stage1(r) ==
    /\ pc[r] = "stage1"
    /\ pc' = [pc EXCEPT ![r] = "stage2"]
    /\ UNCHANGED <<reports, pending, linked, wlocal, report_file, projects, http, hist, ext>>

Stage2(r) ==
    /\ pc[r] = "stage2"
    /\ pc' = [pc EXCEPT ![r] = "stage3"]
    /\ UNCHANGED <<reports, pending, linked, wlocal, report_file, projects, http, hist, ext>>

\* a crew without human input: stage 3 goes on without the pause point
Stage3Draft_NoPause(r) ==
    /\ pc[r] = "stage3"
    /\ pc' = [pc EXCEPT ![r] = "stage3b"]
    /\ UNCHANGED <<reports, pending, linked, wlocal, report_file, projects, http, hist, ext>>

\* stage 3 produces the draft and enters the pause point
Stage3Draft(r) ==
    /\ pc[r] = "stage3"
    /\ pc' = [pc EXCEPT ![r] = "pausing"]
    /\ UNCHANGED <<reports, pending, linked, wlocal, report_file, projects, http, hist, ext>>

\* pause point: the registry entry is created
PauseRegister(r) ==
    /\ pc[r] = "pausing"
    /\ ~HasPending(r)
    /\ pending' = Register(r, Draft(r))
    /\ pc' = [pc EXCEPT ![r] = IF Status(r) = "pending_human_input"
                                THEN "blocked" ELSE "pausing"]
    /\ UNCHANGED <<reports, linked, wlocal, report_file, projects, http, hist, ext>>

\* pause point: the report is marked pending_human_input with the draft
PauseMark(r) ==
    /\ pc[r] = "pausing"
    /\ Status(r) # "pending_human_input"
    /\ reports' = SetPending(r, Draft(r))
    /\ pauses' = [pauses EXCEPT ![r] = @ + 1]
    /\ pc' = [pc EXCEPT ![r] = IF HasPending(r) THEN "blocked" ELSE "pausing"]
    /\ UNCHANGED <<pending, linked, wlocal, report_file, projects, http, removes, raised, ext>>

\* the blocked worker is signalled by send_feedback
Wake(r) ==
    /\ pc[r] = "blocked"
    /\ pending[r].feedback # Absent
    /\ pc' = [pc EXCEPT ![r] = "resuming"]
    /\ UNCHANGED <<reports, pending, linked, wlocal, report_file, projects, http, hist, ext>>

\* the blocked worker's wait times out
Timeout(r) ==
    /\ pc[r] = "blocked"
    /\ pending[r].feedback = Absent
    /\ pc' = [pc EXCEPT ![r] = "resuming"]
    /\ UNCHANGED <<reports, pending, linked, wlocal, report_file, projects, http, hist, ext>>

\* leaving the pause point: the request is destroyed, its feedback taken
ResumeDestroy(r) ==
    /\ pc[r] = "resuming"
    /\ HasPending(r)
    /\ wfeedback' = [wfeedback EXCEPT ![r] = pending[r].feedback]
    /\ pending' = Destroy(r)
    /\ pc' = [pc EXCEPT ![r] = IF Status(r) = "pending_human_input"
                                THEN "resuming" ELSE "stage3b"]
    /\ UNCHANGED <<reports, linked, wmd, report_file, projects, http, hist, ext>>

\* leaving the pause point: the report goes back to processing
ResumeMark(r) ==
    /\ pc[r] = "resuming"
    /\ Status(r) = "pending_human_input"
    /\ reports' = SetStatus(r, "processing")
    /\ pc' = [pc EXCEPT ![r] = IF HasPending(r) THEN "resuming" ELSE "stage3b"]
    /\ UNCHANGED <<pending, linked, wlocal, report_file, projects, http, hist, ext>>

\* stage 3 after the pause: the final document goes to output_file
Stage3Finish(r) ==
    /\ pc[r] = "stage3b"
    /\ report_file' = FinalDoc(r, wfeedback[r])
    /\ pc' = [pc EXCEPT ![r] = "grab"]
    /\ UNCHANGED <<reports, projects, pending, linked, wlocal, http, hist, ext>>

\* run_crew_background lines 152-158: grab_outputs and the report file
ReadReportFile(r) ==
    /\ pc[r] = "grab"
    /\ wmd' = [wmd EXCEPT ![r] = report_file]
    /\ pc' = [pc EXCEPT ![r] = "finalize"]
    /\ UNCHANGED <<reports, pending, linked, wfeedback, report_file, projects, http, hist, ext>>

\* an exception raised inside the try block after finalize_report returned
Finalize_ThenRaise(r) ==
    /\ pc[r] = "finalize"
    /\ LET g == GrabOutputs(TasksOutput(r, wfeedback[r])) IN
       reports' = FinalizeReport(r, wmd[r], g.analysis_json, g.audit_raw)
    /\ pc' = [pc EXCEPT ![r] = "except"]
    /\ raised' = [raised EXCEPT ![r] = TRUE]
    /\ UNCHANGED <<pending, linked, wlocal, report_file, projects, http, pauses, removes, ext>>

\* the worker leaving the try block without calling finalize_report
Finalize_Skipped(r) ==
    /\ pc[r] = "finalize"
    /\ pc' = [pc EXCEPT ![r] = "finally"]
    /\ UNCHANGED <<reports, pending, linked, wlocal, report_file, projects, http, hist, ext>>

\* a finalize_report that fills the text fields and leaves the status
Finalize_FieldsOnly(r) ==
    /\ pc[r] = "finalize"
    /\ LET g == GrabOutputs(TasksOutput(r, wfeedback[r])) IN
       reports' = [reports EXCEPT ![r].report_md = wmd[r],
                                  ![r].analysis_json = g.analysis_json,
                                  ![r].audit_raw = g.audit_raw]
    /\ pc' = [pc EXCEPT ![r] = "finally"]
    /\ UNCHANGED <<pending, linked, wlocal, report_file, projects, http, hist, ext>>

\* run_crew_background line 160: db.finalize_report
Finalize(r) ==
    /\ pc[r] = "finalize"
    /\ LET g == GrabOutputs(TasksOutput(r, wfeedback[r])) IN
       reports' = FinalizeReport(r, wmd[r], g.analysis_json, g.audit_raw)
    /\ pc' = [pc EXCEPT ![r] = "finally"]
    /\ UNCHANGED <<pending, linked, wlocal, report_file, projects, http, hist, ext>>

\* an exception the except clause does not catch
Raise_Escapes(r) ==
    /\ pc[r] \in {"link", "stage1", "stage2", "stage3", "stage3b", "grab", "finalize"}
    /\ pc' = [pc EXCEPT ![r] = "finally"]
    /\ raised' = [raised EXCEPT ![r] = TRUE]
    /\ UNCHANGED <<reports, pending, linked, wlocal, report_file, projects, http,
                   pauses, removes, ext>>

\* an exception inside the try block, lines 142-160
RaisePcs == {"link", "stage1", "stage2", "stage3", "stage3b", "grab", "finalize"}

Raise(r) ==
    /\ pc[r] \in RaisePcs
    /\ pc' = [pc EXCEPT ![r] = "except"]
    /\ raised' = [raised EXCEPT ![r] = TRUE]
    /\ UNCHANGED <<reports, pending, linked, wlocal, report_file, projects, http,
                   pauses, removes, ext>>

\* an except branch that only logs
Except_NoStatus(r) ==
    /\ pc[r] = "except"
    /\ pc' = [pc EXCEPT ![r] = "finally"]
    /\ UNCHANGED <<reports, pending, linked, wlocal, report_file, projects, http, hist, ext>>

\* run_crew_background lines 163-165: the except branch
Except(r) ==
    /\ pc[r] = "except"
    /\ reports' = SetStatus(r, "failed")
    /\ pc' = [pc EXCEPT ![r] = "finally"]
    /\ UNCHANGED <<pending, linked, wlocal, report_file, projects, http, hist, ext>>

\* a worker that ends without hitl.remove
Finally_NoRemove(r) ==
    /\ pc[r] = "finally"
    /\ wfeedback' = [wfeedback EXCEPT ![r] = Absent]
    /\ wmd' = [wmd EXCEPT ![r] = NoText]
    /\ pc' = [pc EXCEPT ![r] = "done"]
    /\ UNCHANGED <<reports, pending, linked, report_file, projects, http, hist, ext>>

\* run_crew_background lines 166-167: the finally branch, hitl.remove
Finally(r) ==
    /\ pc[r] = "finally"
    /\ pending' = Destroy(r)
    /\ linked' = linked \ {r}
    /\ removes' = [removes EXCEPT ![r] = @ + 1]
    /\ wfeedback' = [wfeedback EXCEPT ![r] = Absent]
    /\ wmd' = [wmd EXCEPT ![r] = NoText]
    /\ pc' = [pc EXCEPT ![r] = "done"]
    /\ UNCHANGED <<reports, report_file, projects, http, pauses, raised, ext>>

\* the except branch when db.set_status itself raises
ExceptFault(r) ==
    /\ pc[r] = "except"
    /\ pc' = [pc EXCEPT ![r] = "finally"]
    /\ UNCHANGED <<reports, pending, linked, wlocal, report_file, projects, http, hist, ext>>

\* ---------------------------------------------------------------- read endpoints
ReviewMessage == "review the draft"

StatusMessage(st) ==
    CASE st = "processing" -> "still running"
      [] st = "completed"  -> "audit complete"
      [] st = "failed"     -> "run failed"
      [] OTHER             -> "no message"

\* check_status that returns the draft whatever the status is
CheckStatusBody_AlwaysDraft(r) ==
    [report_id |-> r, status |-> reports[r].status,
     agent_output |-> reports[r].agent_output, message |-> ReviewMessage]

\* the body GET /hitl/status/{report_id} answers for an existing report
CheckStatusBody(r) ==
    IF reports[r].status = "pending_human_input"
    THEN [report_id |-> r, status |-> reports[r].status,
          agent_output |-> reports[r].agent_output, message |-> ReviewMessage]
    ELSE [report_id |-> r, status |-> reports[r].status,
          message |-> StatusMessage(reports[r].status)]

\* check_status that answers 200 for a report that was never created
CheckStatus_NoNotFound(r) ==
    /\ resp' = 200
    /\ UNCHANGED <<reports, projects, pending, linked, pc, wlocal, report_file,
                   inflight, hist, ext>>

\* check_status that takes the draft out of the record when it is read
CheckStatus_ClearsDraft(r) ==
    /\ resp' = IF r \in DOMAIN reports THEN 200 ELSE 404
    /\ reports' = IF r \in DOMAIN reports
                  THEN [reports EXCEPT ![r].agent_output = NoText]
                  ELSE reports
    /\ UNCHANGED <<projects, pending, linked, pc, wlocal, report_file,
                   inflight, hist, ext>>

\* GET /hitl/status/{report_id}
CheckStatus(r) ==
    /\ resp' = IF r \in DOMAIN reports THEN 200 ELSE 404
    /\ UNCHANGED <<reports, projects, pending, linked, pc, wlocal, report_file,
                   inflight, hist, ext>>

\* GET /history
GetHistory ==
    /\ resp' = 200
    /\ UNCHANGED <<reports, projects, pending, linked, pc, wlocal, report_file,
                   inflight, hist, ext>>

\* GET /reports/{report_id}
GetReport(r) ==
    /\ resp' = IF r \in DOMAIN reports THEN 200 ELSE 404
    /\ UNCHANGED <<reports, projects, pending, linked, pc, wlocal, report_file,
                   inflight, hist, ext>>

\* GET /projects
GetProjects ==
    /\ resp' = 200
    /\ UNCHANGED <<reports, projects, pending, linked, pc, wlocal, report_file,
                   inflight, hist, ext>>

\* GET /projects/{project_id}
GetProject(p) ==
    /\ resp' = IF p \in DOMAIN projects THEN 200 ELSE 404
    /\ UNCHANGED <<reports, projects, pending, linked, pc, wlocal, report_file,
                   inflight, hist, ext>>

\* GET /projects/{project_id}/reports
GetProjectReports(p) ==
    /\ resp' = IF p \in DOMAIN projects THEN 200 ELSE 404
    /\ UNCHANGED <<reports, projects, pending, linked, pc, wlocal, report_file,
                   inflight, hist, ext>>

\* ---- the GET routes, and the request GET /projects/find
\* a path segment: a fixed word, or a generated id
Lit(word) == [lit |-> word, id |-> 0]
IdSeg(p) == [lit |-> "", id |-> p]
\* a path parameter of a route
Param == [lit |-> "{}", id |-> 0]

\* the GET routes in the order the decorators register them
GetRoutes ==
    << [path |-> <<Lit("hitl"), Lit("status"), Param>>, endpoint |-> "check_status"],
       [path |-> <<Lit("history")>>, endpoint |-> "get_history"],
       [path |-> <<Lit("reports"), Param>>, endpoint |-> "get_report"],
       [path |-> <<Lit("projects")>>, endpoint |-> "get_projects"],
       [path |-> <<Lit("projects"), Param>>, endpoint |-> "get_project"],
       [path |-> <<Lit("projects"), Lit("find")>>, endpoint |-> "find_project"],
       [path |-> <<Lit("projects"), Param, Lit("reports")>>,
        endpoint |-> "get_project_reports"] >>

\* a route matches a request path when every segment is the route's word or
\* stands at a path parameter
Matches(route, segs) ==
    /\ Len(route.path) = Len(segs)
    /\ \A i \in 1..Len(segs) : route.path[i] = Param \/ route.path[i] = segs[i]

\* the first matching route handles the request
EndpointOf(segs) ==
    LET hits == {i \in 1..Len(GetRoutes) : Matches(GetRoutes[i], segs)} IN
    IF hits = {} THEN "not found"
    ELSE GetRoutes[CHOOSE i \in hits : \A j \in hits : i <= j].endpoint

\* db.get_project on a path segment: generated ids are the only keys
ProjectAt(seg) == seg.lit = "" /\ seg.id \in DOMAIN projects

\* db.get_project_by_name_path
ProjectsByNamePath(name, path) ==
    {p \in DOMAIN projects : projects[p].name = name /\ projects[p].path = path}

ProjectNames == {"project", "other"}
ProjectPaths == {"dir"}

\* GET /projects/find?name=..&path=..
GetProjectsFind(name, path) ==
    LET segs == <<Lit("projects"), Lit("find")>>
        endpoint == EndpointOf(segs)
    IN  /\ resp' = CASE endpoint = "find_project" ->
                            IF ProjectsByNamePath(name, path) # {} THEN 200 ELSE 404
                     [] endpoint = "get_project" ->
                            IF ProjectAt(segs[2]) THEN 200 ELSE 404
                     [] OTHER -> 404
        /\ UNCHANGED <<reports, projects, pending, linked, pc, wlocal, report_file,
                       inflight, hist, ext>>

ReadEndpoint ==
    \/ \E r \in Reports : CheckStatus(r)
    \/ GetHistory
    \/ \E r \in Reports : GetReport(r)
    \/ GetProjects
    \/ \E p \in Reports : GetProject(p)
    \/ \E p \in Reports : GetProjectReports(p)

\* ---------------------------------------------------------------- the report file, by author
\* the final document of report r with its author kept: the draft when the
\* human approved the draft or the pause timed out, a revision otherwise
OwnDoc(r, fb) == IF fb \in {Absent, ""} THEN Draft(r) ELSE <<r, "revised">>

\* Stage3Finish with the author of the document kept in the file
Stage3FinishDoc(r) ==
    /\ pc[r] = "stage3b"
    /\ report_file' = OwnDoc(r, wfeedback[r])
    /\ pc' = [pc EXCEPT ![r] = "grab"]
    /\ UNCHANGED <<reports, projects, pending, linked, wlocal, http, hist, ext>>

Progress(r) ==
    \/ Link(r) \/ Stage1(r) \/ Stage2(r) \/ Stage3Draft(r)
    \/ PauseRegister(r) \/ PauseMark(r)
    \/ Wake(r) \/ Timeout(r)
    \/ ResumeDestroy(r) \/ ResumeMark(r)
    \/ Stage3Finish(r) \/ ReadReportFile(r) \/ Finalize(r)
    \/ Except(r) \/ Finally(r)

Next ==
    \/ \E isdir \in BOOLEAN : StartAudit(isdir)
    \/ \E r \in Reports : GiveFeedbackCheck(r)
    \/ \E r \in Reports, text \in FeedbackTexts : GiveFeedbackSend(r, text)
    \/ \E r \in Reports : Progress(r)
    \/ \E r \in Reports : Raise(r)

Spec == Init /\ [][Next]_vars

\* every worker thread is scheduled; exceptions and HTTP requests are not forced
FairSpec == Spec /\ \A r \in Reports : WF_vars(Progress(r))

\* the same program when the Report Store may fail in the except branch
NextFault == Next \/ \E r \in Reports : ExceptFault(r)

SpecFault == Init /\ [][NextFault]_vars

\* ---------------------------------------------------------------- extraction tools
\* A text is a sequence of characters.  A tool's result is a record whose
\* head is the text the returned string starts with.
Self == <<"s", "e", "l", "f">>
ArgNames == {Self, <<"a">>, <<"b">>}
Words == {<<"a">>, <<"b">>, <<"a", "d", "d">>, <<"t", "o">>}
MaxArgs == 2
MaxWords == 2

\* sequences of length at most n over S, and those without repetition
SeqsUpTo(S, n) == UNION {[1..k -> S] : k \in 0..n}
Distinct(q) == \A i, j \in 1..Len(q) : i # j => q[i] # q[j]

\* a docstring as the sequence of its words; ast.get_docstring gives None for
\* a function without one
NoDoc == [has |-> FALSE, words |-> <<>>]
Docstrings == {NoDoc} \cup {[has |-> TRUE, words |-> w] : w \in SeqsUpTo(Words, MaxWords)}

\* a function definition: its positional parameters and its docstring
Functions ==
    {[args |-> a, doc |-> d] :
        a \in {q \in SeqsUpTo(ArgNames, MaxArgs) : Distinct(q)}, d \in Docstrings}

\* the text of a docstring: its words with a space between them
RECURSIVE DocText(_)
DocText(ws) ==
    IF ws = <<>> THEN <<>>
    ELSE IF Len(ws) = 1 THEN ws[1]
    ELSE ws[1] \o <<" ">> \o DocText(Tail(ws))

\* Python's "x in t" for strings
IsSubstring(x, t) ==
    \E i \in 0..(Len(t) - Len(x)) : SubSeq(t, i + 1, i + Len(x)) = x

\* doc_tools.py lines 23-32: the finding for one function, NoFinding if none
NoFinding == [head |-> "none"]

FunctionFinding(f) ==
    LET NotSelf(x) == x # Self
        signature_args == SelectSeq(f.args, NotSelf)
        docstring == DocText(f.doc.words)
    IN  IF f.doc.has /\ docstring # <<>>
        THEN LET Missing(x) == ~IsSubstring(x, docstring)
                 missing_in_doc == SelectSeq(signature_args, Missing)
             IN  IF missing_in_doc # <<>>
                 THEN [head |-> "Function", kind |-> "missing parameters",
                       params |-> missing_in_doc]
                 ELSE NoFinding
        ELSE [head |-> "Function", kind |-> "Missing docstring entirely"]

RECURSIVE FileFindings(_)
FileFindings(funcs) ==
    IF funcs = <<>> THEN <<>>
    ELSE LET x == FunctionFinding(Head(funcs)) IN
         (IF x = NoFinding THEN <<>> ELSE <<x>>) \o FileFindings(Tail(funcs))

\* DocstringSignatureTool._run
DocstringSignatureRun(input) ==
    IF ~input.exists
    THEN [head |-> "Error:", text |-> "File not found."]
    ELSE LET results == FileFindings(input.funcs) IN
         IF results # <<>>
         THEN [head |-> "Function", results |-> results]
         ELSE [head |-> "All function signatures match", results |-> <<>>]

\* the files the tool is called on: missing, empty, one function, or one
\* function followed by an undocumented one
Undocumented == [args |-> << <<"a">> >>, doc |-> NoDoc]

DocstringInputs ==
    {[exists |-> FALSE, funcs |-> <<>>], [exists |-> TRUE, funcs |-> <<>>]}
    \cup {[exists |-> TRUE, funcs |-> <<f>>] : f \in Functions}
    \cup {[exists |-> TRUE, funcs |-> <<f, Undocumented>>] : f \in Functions}

\* ---- ReadmeStructureTool
\* the backtick character
Backtick == "tick"
Lower == {"a", "b", "p", "y"}
FileNames == {<<"a", ".", "p", "y">>, <<"b", ".", "p", "y">>, <<"M", "K">>}
ReadmeTokens == FileNames \cup {<<Backtick>>, <<" ">>}
MaxTokens == 4

RECURSIVE Flatten(_)
Flatten(toks) == IF toks = <<>> THEN <<>> ELSE Head(toks) \o Flatten(Tail(toks))

\* the position of the first backtick of c at or after i, 0 if there is none
RECURSIVE NextBacktick(_, _)
NextBacktick(c, i) ==
    IF i > Len(c) THEN 0
    ELSE IF c[i] = Backtick THEN i
    ELSE NextBacktick(c, i + 1)

\* the group of the pattern, one or more non-backtick characters, a dot, one or
\* more of a-z: g has no backtick, and after some dot that is not
\* its first character come only lowercase letters, at least one
MatchesPath(g) ==
    \E k \in 2..(Len(g) - 1) :
        /\ g[k] = "."
        /\ \A m \in (k + 1)..Len(g) : g[m] \in Lower

\* re.findall over content from position i: a backtick, the group, a backtick
RECURSIVE FindMentions(_, _)
FindMentions(c, i) ==
    LET open == NextBacktick(c, i) IN
    IF open = 0 THEN <<>>
    ELSE LET close == NextBacktick(c, open + 1) IN
         IF close = 0 THEN <<>>
         ELSE LET g == SubSeq(c, open + 1, close - 1) IN
              IF MatchesPath(g)
              THEN <<g>> \o FindMentions(c, close + 1)
              ELSE FindMentions(c, open + 1)

\* ReadmeStructureTool._run; files is the set of paths that exist under root
ReadmeStructureRun(input) ==
    IF ~input.exists
    THEN [head |-> "README.md not found", results |-> <<>>]
    ELSE LET mentions == FindMentions(Flatten(input.content), 1)
             Missing(m) == m \notin input.files
             results == SelectSeq(mentions, Missing)
         IN  IF results # <<>>
             THEN [head |-> "README mentions", results |-> results]
             ELSE [head |-> "All files mentioned in README exist.", results |-> <<>>]

ReadmeInputs ==
    {[exists |-> FALSE, content |-> <<>>, files |-> {}]}
    \cup {[exists |-> TRUE, content |-> c, files |-> fs] :
             c \in SeqsUpTo(ReadmeTokens, MaxTokens), fs \in SUBSET FileNames}

\* ---- ApiImplementationTool, CodeCommentTool, ListFilesTool
MaxLines == 2

\* ApiImplementationTool._run; a line is a route decorator or something else
ApiImplementationRun(input) ==
    IF ~input.exists
    THEN [head |-> "Error:", text |-> "File not found."]
    ELSE LET IsRoute(l) == l = "route"
             routes == SelectSeq(input.lines, IsRoute)
         IN  IF routes # <<>>
             THEN [head |-> "Found routes in implementation:", results |-> routes]
             ELSE [head |-> "No API routes found in this file.", results |-> <<>>]

ApiInputs ==
    {[exists |-> FALSE, lines |-> <<>>]}
    \cup {[exists |-> TRUE, lines |-> l] : l \in SeqsUpTo({"route", "other"}, MaxLines)}

\* CodeCommentTool._run; a line has a # in it or not
CodeCommentRun(input) ==
    IF ~input.exists
    THEN [head |-> "Error:", text |-> "File not found."]
    ELSE LET HasHash(l) == l = "comment"
             comments_with_context == SelectSeq(input.lines, HasHash)
         IN  IF comments_with_context # <<>>
             THEN [head |-> "[{", results |-> comments_with_context]
             ELSE [head |-> "No inline comments found.", results |-> <<>>]

CommentInputs ==
    {[exists |-> FALSE, lines |-> <<>>]}
    \cup {[exists |-> TRUE, lines |-> l] : l \in SeqsUpTo({"comment", "code"}, MaxLines)}

\* ListFilesTool._run; an entry of the walk is a file or a hidden file
ListFilesRun(input) ==
    IF ~input.exists
    THEN [head |-> "Error:", text |-> "Directory not found."]
    ELSE LET Shown(f) == f = "file"
             file_list == SelectSeq(input.lines, Shown)
         IN  IF file_list # <<>>
             THEN [head |-> "file", results |-> file_list]
             ELSE [head |-> "No files found in the directory.", results |-> <<>>]

ListFilesInputs ==
    {[exists |-> FALSE, lines |-> <<>>]}
    \cup {[exists |-> TRUE, lines |-> l] : l \in SeqsUpTo({"file", "hidden"}, MaxLines)}

\* ---- grab_outputs called on its own
TaskNames == {"audit_task", "freshness_scorer_task", "suggestion_task"}

\* the raw output of a task: empty, or a text that names the task
RawOf(n) == <<n, "raw">>

GrabInputs ==
    {q \in UNION {[1..k -> [name : TaskNames, raw : {NoText} \cup {RawOf(n) : n \in TaskNames}]] :
                     k \in 0..Cardinality(TaskNames)} :
        /\ \A i, j \in 1..Len(q) : i # j => q[i].name # q[j].name
        /\ \A i \in 1..Len(q) : q[i].raw \in {NoText, RawOf(q[i].name)}}

\* ---- calls
NotRun == [head |-> "not run"]

ToolRun(name, input) ==
    CASE name = "DocstringSignatureTool" -> DocstringSignatureRun(input)
      [] name = "ReadmeStructureTool"    -> ReadmeStructureRun(input)
      [] name = "ApiImplementationTool"  -> ApiImplementationRun(input)
      [] name = "CodeCommentTool"        -> CodeCommentRun(input)
      [] name = "ListFilesTool"          -> ListFilesRun(input)

ExtractionTools ==
    {"DocstringSignatureTool", "ReadmeStructureTool", "ApiImplementationTool",
     "CodeCommentTool", "ListFilesTool"}

ToolInputs(name) ==
    CASE name = "DocstringSignatureTool" -> DocstringInputs
      [] name = "ReadmeStructureTool"    -> ReadmeInputs
      [] name = "ApiImplementationTool"  -> ApiInputs
      [] name = "CodeCommentTool"        -> CommentInputs
      [] name = "ListFilesTool"          -> ListFilesInputs

\* a call that has been made and has not returned yet
Calls ==
    UNION {{[name |-> n, input |-> i, out |-> NotRun] : i \in ToolInputs(n)} :
              n \in ExtractionTools}
    \cup {[name |-> "grab_outputs", input |-> i, out |-> NotRun] : i \in GrabInputs}

InitTools ==
    /\ reports = << >>
    /\ projects = << >>
    /\ pending = << >>
    /\ linked = {}
    /\ pc = [r \in Reports |-> "none"]
    /\ wfeedback = [r \in Reports |-> Absent]
    /\ wmd = [r \in Reports |-> NoText]
    /\ report_file = NoText
    /\ inflight = [r \in Reports |-> 0]
    /\ resp = 0
    /\ pauses = [r \in Reports |-> 0]
    /\ removes = [r \in Reports |-> 0]
    /\ raised = [r \in Reports |-> FALSE]
    /\ installed = "up"
    /\ tool \in Calls

\* an extraction tool returns
RunTool(name) ==
    /\ tool.name = name
    /\ tool.out = NotRun
    /\ tool' = [tool EXCEPT !.out = ToolRun(name, tool.input)]
    /\ UNCHANGED <<reports, projects, pending, linked, pc, wlocal, report_file,
                   http, hist, installed>>

\* grab_outputs returns
RunGrabOutputs ==
    /\ tool.name = "grab_outputs"
    /\ tool.out = NotRun
    /\ tool' = [tool EXCEPT !.out = GrabOutputs(tool.input)]
    /\ UNCHANGED <<reports, projects, pending, linked, pc, wlocal, report_file,
                   http, hist, installed>>

NextTools ==
    \/ \E name \in ExtractionTools : RunTool(name)
    \/ RunGrabOutputs

SpecTools == InitTools /\ [][NextTools]_vars

\* ---------------------------------------------------------------- lifespan
\* the process before the lifespan's startup half has run
InitLife ==
    /\ reports = << >>
    /\ projects = << >>
    /\ pending = << >>
    /\ linked = {}
    /\ pc = [r \in Reports |-> "none"]
    /\ wfeedback = [r \in Reports |-> Absent]
    /\ wmd = [r \in Reports |-> NoText]
    /\ report_file = NoText
    /\ inflight = [r \in Reports |-> 0]
    /\ resp = 0
    /\ pauses = [r \in Reports |-> 0]
    /\ removes = [r \in Reports |-> 0]
    /\ raised = [r \in Reports |-> FALSE]
    /\ installed = "no"
    /\ tool = NoCall

\* lifespan lines 23-24: db.init_db and hitl.install, before the yield
Startup ==
    /\ installed = "no"
    /\ installed' = "up"
    /\ UNCHANGED <<reports, projects, pending, linked, pc, wlocal, report_file,
                   http, hist, tool>>

\* lifespan line 26: hitl.uninstall, once the server has answered the requests
\* it had accepted; the worker threads are daemon threads that nothing joins
\* or stops, and the registry is torn down under them
Shutdown ==
    /\ installed = "up"
    /\ InFlight = 0
    /\ installed' = "down"
    /\ pending' = << >>
    /\ linked' = {}
    /\ UNCHANGED <<reports, projects, pc, wlocal, report_file, http, hist, tool>>

\* requests are served and workers run between startup and shutdown; the
\* process exits after uninstall
NextLife ==
    \/ Startup
    \/ (installed = "up" /\ Next)
    \/ Shutdown

SpecLife == InitLife /\ [][NextLife]_vars

\* the same program with the read endpoints being called
NextReads == Next \/ ReadEndpoint

SpecReads == Init /\ [][NextReads]_vars

\* the same program with requests to GET /projects/find
NextFind ==
    \/ Next
    \/ \E name \in ProjectNames, path \in ProjectPaths : GetProjectsFind(name, path)

SpecFind == Init /\ [][NextFind]_vars

\* the same program with the author of each final document kept
ProgressDoc(r) ==
    \/ Link(r) \/ Stage1(r) \/ Stage2(r) \/ Stage3Draft(r)
    \/ PauseRegister(r) \/ PauseMark(r)
    \/ Wake(r) \/ Timeout(r)
    \/ ResumeDestroy(r) \/ ResumeMark(r)
    \/ Stage3FinishDoc(r) \/ ReadReportFile(r) \/ Finalize(r)
    \/ Except(r) \/ Finally(r)

NextDoc ==
    \/ \E isdir \in BOOLEAN : StartAudit(isdir)
    \/ \E r \in Reports : GiveFeedbackCheck(r)
    \/ \E r \in Reports, text \in FeedbackTexts : GiveFeedbackSend(r, text)
    \/ \E r \in Reports : ProgressDoc(r)
    \/ \E r \in Reports : Raise(r)

SpecDoc == Init /\ [][NextDoc]_vars

\* ================================================================ properties
Pend == "pending_human_input"

StatusNext(r) == IF r \in DOMAIN reports' THEN reports'[r].status ELSE "none"

InPausePoint(r) == pc[r] \in {"pausing", "blocked", "resuming"}

\* a request was delivered to the registry entry and not yet taken by the worker
Delivered(r) == HasPending(r) /\ pending[r].feedback # Absent

C2_NoCrossDelivery ==
    [][\A r1 \in Reports, text \in FeedbackTexts :
          GiveFeedbackSend(r1, text) =>
             /\ HasPending(r1) => pending'[r1].feedback = text
             /\ \A r2 \in Reports \ {r1} :
                   /\ pc'[r2] = pc[r2]
                   /\ StatusNext(r2) = Status(r2)
                   /\ wfeedback'[r2] = wfeedback[r2]
                   /\ HasPending(r2) =>
                         (r2 \in DOMAIN pending' /\ pending'[r2] = pending[r2])]_vars

C2_Witness ==
    \E r1 \in Reports, r2 \in Reports :
        /\ r1 # r2
        /\ pc[r1] = "blocked" /\ Delivered(r1) /\ resp = 200
        /\ pc[r2] = "blocked" /\ Status(r2) = Pend
        /\ HasPending(r2) /\ pending[r2].feedback = Absent

\* ---------------------------------------------------------------- C3
\* C3: the status check of give_feedback, for an existing report whose status
\* is processing, completed or failed, answers 409 and changes nothing else:
\* no report record, no registry entry, no worker and no in-flight request.
C3_Conflict409NoChange ==
    [][\A r \in Reports :
          (GiveFeedbackCheck(r) /\ Status(r) \in {"processing", "completed", "failed"}) =>
             /\ resp' = 409
             /\ UNCHANGED <<reports, pending, linked, pc, wfeedback, wmd,
                            report_file, projects, inflight, pauses, removes, raised, ext>>]_vars

C3_Witness ==
    /\ resp = 409
    /\ \A r \in Reports : pauses[r] = 0 /\ inflight[r] = 0
    /\ \E r \in Reports : Status(r) = "failed"
    /\ \E r \in Reports : Status(r) = "processing"

AllowedTransitions ==
    {<<"none", "processing">>,
     <<"processing", Pend>>, <<Pend, "processing">>,
     <<"processing", "completed">>,
     <<"processing", "failed">>, <<Pend, "failed">>}

C5_StatusTransitions ==
    [][\A r \in Reports :
          StatusNext(r) # Status(r) => <<Status(r), StatusNext(r)>> \in AllowedTransitions]_vars

C5_Witness ==
    \E r \in Reports, q \in Reports :
        /\ Status(r) = "completed" /\ pc[r] = "done" /\ pauses[r] = 1
        /\ Status(q) = "failed" /\ pc[q] = "done" /\ pauses[q] = 1

\* ---------------------------------------------------------------- C6
\* C6: hitl.send_feedback for a report_id without a registry entry returns
\* false, leaves the registry as it is, moves no worker and changes no
\* Report Store record.
C6_SendWithoutPauseIsNoOp ==
    [][\A r \in Reports, text \in FeedbackTexts :
          (GiveFeedbackSend(r, text) /\ ~HasPending(r)) =>
             /\ ~SendFeedbackOk(r)
             /\ pending' = pending
             /\ pc' = pc
             /\ wfeedback' = wfeedback
             /\ reports' = reports]_vars

\* a handler that read pending_human_input is about to call send_feedback
\* for a report whose worker has already terminated
C6_Witness ==
    \E r \in Reports :
        inflight[r] > 0 /\ ~HasPending(r) /\ pc[r] = "done" /\ Status(r) = "completed"

\* ---------------------------------------------------------------- C7
\* C7: a give_feedback handler that read pending_human_input and reaches
\* send_feedback after the pause has ended answers 409; the report's status
\* is not changed and no worker receives the feedback.
C7_StaleFeedback409 ==
    /\ [](\A r \in Reports : inflight[r] > 0 => pauses[r] > 0)
    /\ [][\A r \in Reports, text \in FeedbackTexts :
             (GiveFeedbackSend(r, text) /\ ~HasPending(r)) =>
                /\ resp' = 409
                /\ StatusNext(r) = Status(r)
                /\ \A q \in Reports : wfeedback'[q] = wfeedback[q]
                /\ \A q \in DOMAIN pending' : pending'[q].feedback = pending[q].feedback]_vars

\* the pause timed out, the worker went on without feedback, and the
\* handler that had read pending_human_input has been answered 409
C7_Witness ==
    \E r \in Reports :
        /\ resp = 409 /\ inflight[r] = 0
        /\ pc[r] = "stage3b" /\ wfeedback[r] = Absent /\ Status(r) = "processing"
        /\ \A q \in Reports \ {r} : Status(q) = "none"

C11_OneWorkerOnePause ==
    /\ [](\A r \in Reports :
             /\ pauses[r] <= 1
             /\ HasPending(r) => InPausePoint(r)
             /\ (pc[r] # "none") <=> (r \in DOMAIN reports))
    /\ [][\A r \in Reports :
             /\ (pc'[r] = "link" /\ pc[r] # "link") =>
                    (pc[r] = "none" /\ r \notin DOMAIN reports)
             /\ (HasPending(r)' /\ ~HasPending(r)) => pc[r] = "pausing"
             /\ (pc'[r] = "pausing" /\ pc[r] # "pausing") =>
                    (pc[r] = "stage3" /\ pauses[r] = 0 /\ ~HasPending(r))]_vars

\* two workers are paused at once, each with its own single request
C11_Witness ==
    /\ \A r \in {1, 2} : pc[r] = "blocked" /\ HasPending(r) /\ pauses[r] = 1
    /\ Cardinality(DOMAIN pending) = 2

\* ---------------------------------------------------------------- C12
\* C12: POST /analyze/start with a project_path that is not a directory is
\* answered 400 and creates nothing: no project, no report, no worker thread
\* and no registry entry; every other part of the state is left as it was.
C12_BadPathCreatesNothing ==
    [][StartAudit(FALSE) =>
          /\ resp' = 400
          /\ UNCHANGED <<reports, projects, pending, linked, pc, wfeedback, wmd,
                         report_file, inflight, pauses, removes, raised, ext>>]_vars

\* a rejected request between two accepted ones
C12_Witness ==
    /\ resp = 400
    /\ DOMAIN reports = {1} /\ DOMAIN projects = {1}
    /\ \A r \in Reports \ {1} : pc[r] = "none"
    /\ pc[1] = "blocked"

\* ---------------------------------------------------------------- C13
\* C13: POST /analyze/start with an existing directory creates one project
\* and one report, the report's first stored status is processing, the worker
\* of the new report exists only together with the report record, and the
\* handler answers 200 while that worker has not run any stage.
C13_StartCreatesThenSpawns ==
    /\ [](\A r \in Reports : pc[r] # "none" => r \in DOMAIN reports)
    /\ [][StartAudit(TRUE) =>
            \E id \in Reports \ DOMAIN reports :
                /\ DOMAIN reports' = DOMAIN reports \cup {id}
                /\ reports'[id].status = "processing"
                /\ \A q \in DOMAIN reports : reports'[q] = reports[q]
                /\ Cardinality(DOMAIN projects') = Cardinality(DOMAIN projects) + 1
                /\ \A q \in DOMAIN projects : projects'[q] = projects[q]
                /\ pc[id] = "none" /\ pc'[id] = "link"
                /\ \A q \in Reports \ {id} : pc'[q] = pc[q]
                /\ resp' = 200]_vars
    /\ [][\A r \in Reports :
            (r \notin DOMAIN reports /\ r \in DOMAIN reports') =>
                reports'[r].status = "processing"]_vars

\* the second audit was just accepted while the first one is under way
C13_Witness ==
    /\ resp = 200
    /\ pc[2] = "link" /\ Status(2) = "processing"
    /\ pc[1] = "stage2"
    /\ DOMAIN projects = {1, 2}

\* ---------------------------------------------------------------- C14
\* C14: an HTTP handler never waits for a worker.  A feedback handler that
\* passed the status check can always take its second and last step, whatever
\* the workers are doing, and that step moves no worker; a status poll and a
\* new feedback request can be served for every report in every state; and a
\* worker blocked at the pause point stops no other worker: every worker that
\* has started and not terminated has a step it can take.
C14_HttpNeverWaits ==
    /\ [](\A r \in Reports :
             /\ inflight[r] > 0 =>
                    \A text \in FeedbackTexts : ENABLED GiveFeedbackSend(r, text)
             /\ InFlight < MaxInFlight => ENABLED GiveFeedbackCheck(r)
             /\ ENABLED CheckStatus(r)
             /\ pc[r] \notin {"none", "done"} => ENABLED Progress(r))
    /\ [][\A r \in Reports, text \in FeedbackTexts :
             GiveFeedbackSend(r, text) =>
                 (inflight'[r] = inflight[r] - 1 /\ pc' = pc)]_vars

\* one worker is blocked at the pause point with a feedback handler under way,
\* another worker is running, and feedback for the running report was refused
C14_Witness ==
    /\ pc[1] = "blocked" /\ pending[1].feedback = Absent /\ inflight[1] = 1
    /\ pc[2] = "stage2"
    /\ resp = 409

\* ---------------------------------------------------------------- C15
\* C15 as stated: the report_md a worker is about to pass to finalize_report
\* for report R is the final document written by R's own stage 3, never the
\* document of another audit.
C15_OwnDocumentFinalized ==
    \A r \in Reports :
        pc[r] = "finalize" => wmd[r] = OwnDoc(r, wfeedback[r])

\* ---------------------------------------------------------------- C16
\* C16: GET /hitl/status/{id} and POST /hitl/feedback for a report_id that
\* was never created are answered 404 and change nothing else: no record, no
\* registry entry, no worker and no feedback handler left under way.
C16_UnknownReport404 ==
    [][\A r \in Reports \ DOMAIN reports :
          (CheckStatus(r) \/ GiveFeedbackCheck(r)) =>
              /\ resp' = 404
              /\ UNCHANGED <<reports, projects, pending, linked, pc, wfeedback,
                             wmd, report_file, inflight, pauses, removes,
                             raised, ext>>]_vars

\* a request for report 2, which does not exist, while report 1 is paused
C16_Witness ==
    /\ resp = 404
    /\ Status(2) = "none"
    /\ pc[1] = "blocked" /\ Status(1) = Pend

\* ---------------------------------------------------------------- C17
\* C17: GET /hitl/status/{id}, /history, /reports/{id}, /projects,
\* /projects/{id} and /projects/{id}/reports change neither the Report Store
\* nor the registry, in every state; the body a status poll returns for a
\* report changes only in a step of that report's worker.
C17_ReadsChangeNothing ==
    /\ [][ReadEndpoint =>
             UNCHANGED <<reports, projects, pending, linked, pc, wfeedback, wmd,
                         report_file, inflight, pauses, removes, raised, ext>>]_vars
    /\ [][\A r \in DOMAIN reports :
             CheckStatusBody(r)' # CheckStatusBody(r) =>
                 (Progress(r) \/ Raise(r))]_vars

\* a read endpoint was answered 404 while report 1 is pending with its draft
\* and feedback for it is already delivered
C17_Witness ==
    /\ resp = 404
    /\ Status(1) = Pend /\ reports[1].agent_output = Draft(1)
    /\ Delivered(1)

\* ---------------------------------------------------------------- C18
\* C18: whenever a report's stored status is pending_human_input, its
\* agent_output is the draft of that report's stage 3; and the body of
\* GET /hitl/status/{id} carries agent_output and the review instruction
\* exactly when the status is pending_human_input.
C18_DraftShownIffPending ==
    \A r \in DOMAIN reports :
        LET b == CheckStatusBody(r) IN
        /\ Status(r) = Pend => reports[r].agent_output = Draft(r)
        /\ b.status = Status(r)
        /\ ("agent_output" \in DOMAIN b) <=> (Status(r) = Pend)
        /\ (b.message = ReviewMessage) <=> (Status(r) = Pend)
        /\ Status(r) = Pend => b.agent_output = Draft(r)

\* one report is pending with its draft, the other has completed
C18_Witness ==
    /\ Status(1) = Pend /\ reports[1].agent_output = Draft(1)
    /\ Status(2) = "completed" /\ reports[2].agent_output = Draft(2)
    /\ resp = 200

\* ---------------------------------------------------------------- C19
\* C19: finalize_report is one write.  A report whose status is processing
\* or pending_human_input has empty report_md, analysis_json and audit_raw; a
\* completed report has the three values passed to finalize_report; and the
\* three fields change only in the step that makes the report completed.
C19_FinalizeAtomic ==
    /\ [](\A r \in DOMAIN reports :
             /\ Status(r) \in {"processing", Pend} =>
                    /\ reports[r].report_md = NoText
                    /\ reports[r].analysis_json = NoText
                    /\ reports[r].audit_raw = NoText
             /\ Status(r) = "completed" =>
                    /\ reports[r].report_md # NoText
                    /\ reports[r].analysis_json = ScoreOut(r)
                    /\ reports[r].audit_raw = AuditOut(r)
             /\ (pc[r] = "finally" /\ ~raised[r]) =>
                    (Status(r) = "completed" /\ reports[r].report_md = wmd[r]))
    /\ [][\A r \in DOMAIN reports :
             (\/ reports'[r].report_md # reports[r].report_md
              \/ reports'[r].analysis_json # reports[r].analysis_json
              \/ reports'[r].audit_raw # reports[r].audit_raw) =>
                 (Status(r) = "processing" /\ StatusNext(r) = "completed")]_vars

\* report 1 was just finalized while report 2 is still pending
C19_Witness ==
    /\ pc[1] = "finally" /\ ~raised[1] /\ Status(1) = "completed"
    /\ reports[1].report_md = wmd[1] /\ wmd[1] # NoText
    /\ Status(2) = Pend

\* ---------------------------------------------------------------- C20
\* C20: the stages of one audit run in the order audit, freshness scoring,
\* fix suggestion.  A worker enters a stage only from the one before it, the
\* pause point only from the first half of stage 3, the second half of
\* stage 3 only from the pause point, and never goes back: no stage runs twice.
PcRank(p) ==
    CASE p = "none"     -> 0
      [] p = "link"     -> 1
      [] p = "stage1"   -> 2
      [] p = "stage2"   -> 3
      [] p = "stage3"   -> 4
      [] p = "pausing"  -> 5
      [] p = "blocked"  -> 6
      [] p = "resuming" -> 7
      [] p = "stage3b"  -> 8
      [] p = "grab"     -> 9
      [] p = "finalize" -> 10
      [] p = "except"   -> 11
      [] p = "finally"  -> 12
      [] OTHER          -> 13

C20_StagesInOrder ==
    [][\A r \in Reports :
          /\ PcRank(pc'[r]) >= PcRank(pc[r])
          /\ pc'[r] # pc[r] =>
                /\ pc'[r] = "stage1" => pc[r] = "link"
                /\ pc'[r] = "stage2" => pc[r] = "stage1"
                /\ pc'[r] = "stage3" => pc[r] = "stage2"
                /\ pc'[r] = "pausing" => pc[r] = "stage3"
                /\ pc'[r] = "blocked" => pc[r] = "pausing"
                /\ pc'[r] = "resuming" => pc[r] = "blocked"
                /\ pc'[r] = "stage3b" => pc[r] = "resuming"
                /\ pc'[r] = "grab" => pc[r] = "stage3b"]_vars

\* report 1 has run its three stages with the pause, report 2 is in stage 2
C20_Witness ==
    /\ pc[1] = "grab" /\ pauses[1] = 1 /\ report_file # NoText
    /\ pc[2] = "stage2"

\* ---------------------------------------------------------------- C21
\* C21: a report becomes completed only after it has been marked
\* pending_human_input once and has gone back to processing: the step that
\* completes a report starts from processing, after one pause of that report,
\* with its registry request already destroyed.
C21_CompletedAfterPause ==
    /\ [](\A r \in Reports : Status(r) = "completed" => pauses[r] = 1)
    /\ [][\A r \in Reports :
             (StatusNext(r) = "completed" /\ Status(r) # "completed") =>
                 /\ Status(r) = "processing"
                 /\ pauses[r] = 1
                 /\ ~HasPending(r)]_vars

\* one report completed after its pause timed out, the other after feedback
C21_Witness ==
    /\ pc[1] = "finally" /\ Status(1) = "completed" /\ wfeedback[1] = Absent
    /\ pc[2] = "finally" /\ Status(2) = "completed" /\ wfeedback[2] = "fix"

\* ---------------------------------------------------------------- C22
\* C22 as stated: when the feedback a paused report's worker resumed with is
\* the empty string, the report_md stored at completion is the draft that
\* was held in agent_output during the pause.
C22_ApprovedDraftStored ==
    \A r \in Reports :
        (pc[r] = "finally" /\ Status(r) = "completed" /\ wfeedback[r] = "") =>
            reports[r].report_md = reports[r].agent_output

\* ---------------------------------------------------------------- C23
\* C23: no HTTP handler aborts an audit or writes the status of an existing
\* report: start_audit, both steps of give_feedback and every read endpoint
\* leave the status of every existing report and the position of every worker
\* as they were, and every change of a report's status happens in a step of
\* that report's own worker.
C23_OnlyWorkerChangesStatus ==
    /\ [][(\/ \E isdir \in BOOLEAN : StartAudit(isdir)
           \/ \E q \in Reports : GiveFeedbackCheck(q)
           \/ \E q \in Reports, text \in FeedbackTexts : GiveFeedbackSend(q, text)
           \/ ReadEndpoint) =>
              \A r \in DOMAIN reports :
                  reports'[r].status = reports[r].status /\ pc'[r] = pc[r]]_vars
    /\ [][\A r \in DOMAIN reports :
              reports'[r].status # reports[r].status =>
                  (Progress(r) \/ Raise(r))]_vars

\* feedback for a running report was refused, and the report runs on
C23_Witness ==
    /\ resp = 409
    /\ pc[1] = "stage2" /\ Status(1) = "processing"
    /\ pc[2] = "blocked" /\ Status(2) = Pend /\ Delivered(2)

\* ---------------------------------------------------------------- C24
\* C24 as stated: nothing is served before hitl.install has completed; every
\* worker that is at the pause point is there between install and uninstall,
\* and so is every send_feedback; and after uninstall the registry holds no
\* PendingHITLRequest.
C24_PausesWithinLifespan ==
    /\ [](installed = "no" => (reports = << >> /\ resp = 0))
    /\ [](installed = "down" => pending = << >>)
    /\ [](\A r \in Reports : InPausePoint(r) => installed = "up")
    /\ [][\A r \in Reports, text \in FeedbackTexts :
             GiveFeedbackSend(r, text) => (installed = "up" /\ installed' = "up")]_vars

\* ---------------------------------------------------------------- C25
\* C25 as stated: every extraction tool called on a path that does not exist
\* returns a finding, and that finding starts with "Error:".
Ran(name) == tool # NoCall /\ tool.name = name /\ tool.out # NotRun

C25_MissingPathIsErrorFinding ==
    \A name \in ExtractionTools :
        (Ran(name) /\ ~tool.input.exists) => tool.out.head = "Error:"

\* ---------------------------------------------------------------- C26
\* C26 as stated: for a function with a docstring DocstringSignatureTool lists
\* exactly the parameters other than self that the docstring does not
\* document, and it reports a function without a docstring as missing it.  A
\* docstring documents a parameter when the name is one of its words.
Documents(doc, x) == \E i \in 1..Len(doc.words) : doc.words[i] = x

ExpectedFinding(f) ==
    LET NotDocumented(x) == x # Self /\ ~Documents(f.doc, x)
        undocumented == SelectSeq(f.args, NotDocumented)
    IN  IF ~f.doc.has \/ f.doc.words = <<>>
        THEN [head |-> "Function", kind |-> "Missing docstring entirely"]
        ELSE IF undocumented # <<>>
        THEN [head |-> "Function", kind |-> "missing parameters",
              params |-> undocumented]
        ELSE NoFinding

RECURSIVE ExpectedFindings(_)
ExpectedFindings(funcs) ==
    IF funcs = <<>> THEN <<>>
    ELSE LET x == ExpectedFinding(Head(funcs)) IN
         (IF x = NoFinding THEN <<>> ELSE <<x>>) \o ExpectedFindings(Tail(funcs))

C26_UndocumentedParametersListed ==
    (Ran("DocstringSignatureTool") /\ tool.input.exists) =>
        tool.out.results = ExpectedFindings(tool.input.funcs)

\* ---------------------------------------------------------------- C27
\* C27 as stated: ReadmeStructureTool reports a backtick-quoted file mention
\* of README.md if and only if the path does not exist under the root.  The
\* backticks of a text pair up from the left; a file mention is a quoted
\* group that is a file name.
RECURSIVE QuotedGroups(_, _)
QuotedGroups(c, i) ==
    LET open == NextBacktick(c, i) IN
    IF open = 0 THEN {}
    ELSE LET close == NextBacktick(c, open + 1) IN
         IF close = 0 THEN {}
         ELSE {SubSeq(c, open + 1, close - 1)} \cup QuotedGroups(c, close + 1)

Range(q) == {q[i] : i \in 1..Len(q)}

C27_MissingMentionsReported ==
    (Ran("ReadmeStructureTool") /\ tool.input.exists) =>
        Range(tool.out.results) =
            {m \in QuotedGroups(Flatten(tool.input.content), 1) \cap FileNames :
                m \notin tool.input.files}

\* ---------------------------------------------------------------- C28
\* C28 as stated: of the feedback requests sent for one pause of a report,
\* exactly one is accepted: once feedback has been delivered to the report's
\* request, every further send_feedback for it is answered 409 and leaves the
\* delivered feedback as it is, so the worker resumes with the accepted one.
C28_ExactlyOneAccepted ==
    [][\A r \in Reports, text \in FeedbackTexts :
          (GiveFeedbackSend(r, text) /\ Delivered(r)) =>
              /\ resp' = 409
              /\ pending'[r].feedback = pending[r].feedback]_vars

\* ---------------------------------------------------------------- C29
\* the call of grab_outputs has returned
Grabbed == tool.name = "grab_outputs" /\ tool.out # NotRun

\* the positions of the task outputs of one stage
PositionsOf(name) == {i \in 1..Len(tool.input) : tool.input[i].name = name}

\* the raw output of a stage, empty when the stage has no task output
StageRaw(name) ==
    IF PositionsOf(name) = {} THEN NoText
    ELSE tool.input[CHOOSE i \in PositionsOf(name) : TRUE].raw

\* C29 as stated: whenever the task outputs contain an output of the
\* freshness-scoring stage, in any position, analysis_json is that output's
\* raw text; analysis_json is the fix-suggestion output only when the task
\* outputs contain no scoring output; audit_raw is the audit stage's raw text.
C29_ScoringOutputIsAnalysis ==
    Grabbed =>
        /\ PositionsOf("freshness_scorer_task") # {} =>
               tool.out.analysis_json = StageRaw("freshness_scorer_task")
        /\ tool.out.analysis_json = RawOf("suggestion_task") =>
               PositionsOf("freshness_scorer_task") = {}
        /\ tool.out.audit_raw = StageRaw("audit_task")

\* the suggestion output comes after the scoring output
SuggestionAfterScoring ==
    \E i \in PositionsOf("freshness_scorer_task"), j \in PositionsOf("suggestion_task") : i < j

\* C29 amended: a scoring output whose raw text is not empty is analysis_json
\* in any order of the task outputs; the fix-suggestion output is
\* analysis_json only when there is no scoring output or its raw text is
\* empty, and with an empty scoring output only when the suggestion output
\* comes after it (a later empty scoring output resets analysis_json to the
\* empty text); audit_raw is the audit stage's raw text.
C29_NonEmptyScoringOutputIsAnalysis ==
    Grabbed =>
        /\ StageRaw("freshness_scorer_task") # NoText =>
               tool.out.analysis_json = StageRaw("freshness_scorer_task")
        /\ StageRaw("freshness_scorer_task") = NoText =>
               tool.out.analysis_json =
                   IF PositionsOf("freshness_scorer_task") = {} \/ SuggestionAfterScoring
                   THEN StageRaw("suggestion_task") ELSE NoText
        /\ tool.out.audit_raw = StageRaw("audit_task")

\* grab_outputs returned the scoring output although a non-empty suggestion
\* output came first in the task outputs
C29_Witness ==
    /\ Grabbed
    /\ StageRaw("freshness_scorer_task") # NoText
    /\ StageRaw("suggestion_task") # NoText
    /\ ~SuggestionAfterScoring
    /\ tool.out.analysis_json = RawOf("freshness_scorer_task")

\* ---------------------------------------------------------------- C30
\* C30 as stated: GET /projects/find with the name and path of an existing
\* project is handled by find_project and answered 200 with that project's
\* id, and it is answered 404 only when no project has that name and path.
C30_FindReturnsExistingProject ==
    [][\A name \in ProjectNames, path \in ProjectPaths :
          GetProjectsFind(name, path) =>
              /\ ProjectsByNamePath(name, path) # {} =>
                     /\ EndpointOf(<<Lit("projects"), Lit("find")>>) = "find_project"
                     /\ resp' = 200
              /\ resp' = 404 => ProjectsByNamePath(name, path) = {}]_vars

\* ---------------------------------------------------------------- C31
\* the worker is inside kickoff: a pipeline stage has started and the crew
\* has not returned
InKickoff(r) == pc[r] \in {"stage1", "stage2", "stage3", "pausing", "blocked",
                           "resuming", "stage3b"}

====
